---- MODULE Spec2Model ----
(***************************************************************************)
(* Two schedulers for the six periodic workloads A..F:                     *)
(*   - CyclicSched/main.c   : time-triggered cyclic executive              *)
(*   - FreeRTOS_Intro/main.c: preemptive fixed-priority periodic tasks     *)
(* and the workloads of common/workload.c.  Times are microseconds of the  *)
(* time_us_64() clock; FreeRTOS ticks are milliseconds.                    *)
(***************************************************************************)
EXTENDS Integers, Naturals, Sequences, FiniteSets, TLC

(* ------------------------------ bounds -------------------------------- *)
\* frames the cyclic dispatcher is followed for (two hyperperiods and a bit)
MaxFrames == 41
\* changes of the switch bank the environment makes during a run
MaxSwitchChanges == 1
\* FreeRTOS ticks the priority scheduler is followed for
MaxTicks == 230
\* ticks the frame arithmetic is followed for from each sampled tick number
MaxFrameSteps == 15

(* ------------------------- program constants -------------------------- *)
MINOR_FRAME_MS == 5
HYPERPERIOD_MS == 100
NUM_FRAMES == 20
MAX_TASKS_PER_FRAME == 4
MAX_JOBS_PER_HYPERPERIOD == 50
MAX_LOGS_PER_HYPERPERIOD == 50
CYCLES_PER_MS == 150000
CYCLES_PER_US == CYCLES_PER_MS \div 1000

TaskIds == {"A", "B", "C", "D", "E", "F"}

(* ------------------------ environment choices ------------------------- *)
\* values of the 8-bit switch bank SW_10..SW_17 that the runs sample
SwitchValues == {0, 128, 255}
\* time_us_64() when the scheduler is started
BootTime == 1000
\* microseconds one job spends outside its busy wait (clock reads, call)
Latencies == {10, 25}
\* microseconds the synchronous printing of one report takes
ReportCosts == {0, 6000}
\* microseconds the monitor's printf of one log line takes
PrintCosts == {0, 1000}
\* microseconds per FreeRTOS tick (pdMS_TO_TICKS(ms) = ms)
TickUs == 1000

(* --------------------- 32-bit unsigned arithmetic --------------------- *)
\* a uint32_t is kept as two 16-bit limbs, the value being hi * 2^16 + lo
Limb == 65536

U32FromInt(n) == [hi |-> (n \div Limb) % Limb, lo |-> n % Limb]

\* a - b in uint32_t, for operands below 2^16 * 2^16; wraps below zero
U32Sub(a, b) ==
    LET lo == a.lo - b.lo
        borrow == IF lo < 0 THEN 1 ELSE 0
        hi == a.hi - b.hi - borrow
    IN  [hi |-> (hi + Limb) % Limb, lo |-> (lo + Limb) % Limb]

\* a * k in uint32_t for a small factor k (k < 2^14), dropping the carry out
U32MulSmall(a, k) ==
    LET lo == a.lo * k
        hi == a.hi * k + (lo \div Limb)
    IN  [hi |-> hi % Limb, lo |-> lo % Limb]

\* a / k (integer quotient) for a small divisor k, by long division
U32DivSmall(a, k) ==
    LET q1 == a.hi \div k
        r1 == a.hi % k
    IN  q1 * Limb + ((r1 * Limb + a.lo) \div k)

\* the value of a uint32_t below 2^31 as an integer
U32ToInt(a) == a.hi * Limb + a.lo

\* a % k for a small divisor k
U32ModSmall(a, k) == ((a.hi % k) * (Limb % k) + a.lo) % k

\* a + 1 in uint32_t; 2^32 - 1 wraps to 0
U32Inc(a) ==
    LET lo == a.lo + 1
    IN  [hi |-> (a.hi + (lo \div Limb)) % Limb, lo |-> lo % Limb]

(* ----------------------- 64-bit unsigned arithmetic ------------------- *)
\* a uint64_t (or a count that has no width) is kept as hi * 2^16 + lo with
\* a 16-bit lo and an hi that is not cut off
WideNorm(hi, lo) == [hi |-> hi + (lo \div Limb), lo |-> lo % Limb]

WideFromInt(n) == WideNorm(0, n)

WideAdd(a, b) == WideNorm(a.hi + b.hi, a.lo + b.lo)

\* a * k for a small factor k, nothing dropped
WideMulSmall(a, k) == WideNorm(a.hi * k, a.lo * k)

(* ------------------------------ workload ------------------------------ *)
EXECUTION_TIME_A == (1 * CYCLES_PER_MS) - (CYCLES_PER_US * 10)
EXECUTION_TIME_B == (1 * CYCLES_PER_MS) - (CYCLES_PER_US * 10)
EXECUTION_TIME_D == (2 * CYCLES_PER_MS) - (CYCLES_PER_US * 10)
EXECUTION_TIME_E == (4 * CYCLES_PER_MS) - (CYCLES_PER_US * 10)
EXECUTION_TIME_F == (2 * CYCLES_PER_MS) - (CYCLES_PER_US * 10)

\* variant of TaskCWcetUs: the switch value is scaled by 255, not by 256
TaskCWcetUsBy255(sw) == (sw * 8000) \div 255

\* the duration both schedulers predict for job_C from the switch bank
TaskCWcetUs(sw) == (sw * 8000) \div 256

\* delay_us of job_C: uint32_t delay_us = ((switch_value * 8000) / 256) - 10
JobCDelayUs(sw) == U32Sub(U32FromInt((sw * 8000) \div 256), U32FromInt(10))

\* delay_cycles of job_C: uint32_t delay_cycles = delay_us * CYCLES_PER_US
JobCDelayCycles(sw) == U32MulSmall(JobCDelayUs(sw), CYCLES_PER_US)

\* microseconds BSP_WaitClkCycles(n) keeps the processor busy
WaitUs(cycles) == U32DivSmall(cycles, CYCLES_PER_US)

\* microseconds of processor time between retval->start and retval->stop
JobBusyUs(task, sw) ==
    CASE task = "A" -> WaitUs(U32FromInt(EXECUTION_TIME_A))
      [] task = "B" -> WaitUs(U32FromInt(EXECUTION_TIME_B))
      [] task = "C" -> WaitUs(JobCDelayCycles(sw))
      [] task = "D" -> WaitUs(U32FromInt(EXECUTION_TIME_D))
      [] task = "E" -> WaitUs(U32FromInt(EXECUTION_TIME_E))
      [] task = "F" -> WaitUs(U32FromInt(EXECUTION_TIME_F))

\* the nominal duration of a fixed workload: its busy wait and the 10 us
\* the EXECUTION_TIME_x constants leave for the rest of the job
NominalUs(t) == JobBusyUs(t, 0) + 10

\* the values the 8-bit switch_value of job_C can take
SensorValues == 0..255

(* --------------------------- schedule table --------------------------- *)
\* schedule[local_frame + 1] is the ordered task list of frame local_frame
schedule ==
    << <<"B", "A", "D">>, <<"B", "F">>,      <<"B", "A">>,      <<"B", "C">>,
       <<"B", "A", "F">>, <<"B", "C">>,      <<"B", "A">>,      <<"B", "E">>,
       <<"B", "A", "F">>, <<"B">>,           <<"B", "A", "D">>, <<"B", "C">>,
       <<"B", "A", "F">>, <<"B", "D">>,      <<"B", "A">>,      <<"B", "C">>,
       <<"B", "A", "F">>, <<"B", "E">>,      <<"B", "A">>,      <<"B">> >>

\* variant of num_tasks: the count of a frame is one short of its task list
num_tasks_one_short(f) == Len(schedule[f + 1]) - 1

\* .num_tasks of a frame of the table
num_tasks(f) == Len(schedule[f + 1])

Max(a, b) == IF a >= b THEN a ELSE b
Min(a, b) == IF a <= b THEN a ELSE b

(* -------------------------------- state ------------------------------- *)
VARIABLES
    model,                   \* which of the two programs runs
    now,                     \* time_us_64()
    latency,                 \* per-job overhead of this run
    switch_value,            \* the switch bank as last read
    swChanges,               \* changes of the switch bank so far
    red_toggles,             \* BSP_ToggleLED(LED_RED) calls so far
    green_toggles,           \* BSP_ToggleLED(LED_GREEN) calls so far
    workload_calls,          \* calls of a job_X function so far
    \* CyclicSched/main.c
    current_frame,
    job_log,
    job_count,
    hyperperiod_count,
    scheduler_start_time,
    deadline_misses_current,
    deadline_misses_total,
    cyc,                     \* the position of frame_callback and its locals
    next_fire,               \* target time of the next timer callback
    report,                  \* what the last report printed
    \* FreeRTOS_Intro/main.c
    task,                    \* per periodic task: position, params, locals
    mon,                     \* monitor_task: position and locals
    log_buffer,
    log_count,
    log_mutex,               \* holder of log_mutex, or "none"
    scheduler_start_time_us,
    scheduler_initialized,
    cs_ops,                  \* records touched since log_mutex was taken
    \* the frame arithmetic of frame_callback on its own
    fr,
    \* the nominal load of one frame of the table, added up task by task
    load

envVars == <<model, latency, fr, load>>
ioVars == <<switch_value, swChanges, red_toggles, green_toggles, workload_calls>>
cycVars == <<current_frame, job_log, job_count, hyperperiod_count,
             scheduler_start_time, deadline_misses_current,
             deadline_misses_total, cyc, next_fire, report>>
rtosVars == <<task, mon, log_buffer, log_count, log_mutex,
              scheduler_start_time_us, scheduler_initialized, cs_ops>>
vars == <<envVars, now, ioVars, cycVars, rtosVars>>

(* --------------------------- switch bank ------------------------------ *)
\* BSP_GetInput(SW_10..SW_17) assembled into switch_value: the value read is
\* the last one, or another one when the environment changed the switches
CanRead(v) == v = switch_value \/ swChanges < MaxSwitchChanges

ReadSwitch(v) ==
    /\ switch_value' = v
    /\ swChanges' = IF v = switch_value THEN swChanges ELSE swChanges + 1

(* ------------------------- cyclic dispatcher -------------------------- *)
NoReport == [hyperperiod |-> 0, jobs |-> 0, ok |-> 0, miss |-> 0,
             skipped |-> 0, misses_current |-> 0, misses_total |-> 0,
             printed |-> 0]

\* the status column print_hyperperiod_report prints for a record
CycStatus(r) ==
    IF r.exec_time = 0 /\ r.deadline_missed THEN "SKIPPED"
    ELSE IF r.deadline_missed THEN "MISS"
    ELSE "OK"

CountStatus(log, n, s) ==
    Cardinality({i \in 1..n : CycStatus(log[i]) = s})

\* variant of HyperperiodReport: the report is printed after the reset of the
\* log and of the counters of the hyperperiod
HyperperiodReportAfterReset ==
    [hyperperiod |-> hyperperiod_count + 1,
     jobs |-> 0, ok |-> 0, miss |-> 0, skipped |-> 0,
     misses_current |-> 0,
     misses_total |-> deadline_misses_total,
     printed |-> report.printed + 1]

\* print_hyperperiod_report(): one line per record below job_count, then the
\* totals
HyperperiodReport ==
    [hyperperiod |-> hyperperiod_count,
     jobs |-> job_count,
     ok |-> CountStatus(job_log, job_count, "OK"),
     miss |-> CountStatus(job_log, job_count, "MISS"),
     skipped |-> CountStatus(job_log, job_count, "SKIPPED"),
     misses_current |-> deadline_misses_current,
     misses_total |-> deadline_misses_total,
     printed |-> report.printed + 1]

\* uint64_t frame_start = scheduler_start_time + (current_frame * 5 * 1000)
FrameStart(base, frame) ==
    base + U32ToInt(U32MulSmall(U32FromInt(frame), MINOR_FRAME_MS * 1000))

\* the same expression in full width: the uint32_t product added to the
\* uint64_t scheduler_start_time
FrameStartWide(base, frame) ==
    WideAdd(base, U32MulSmall(frame, MINOR_FRAME_MS * 1000))

\* variant of CycAppend: the capacity guard is inverted, nothing is recorded
CycAppendInverted(rec) ==
    IF job_count >= MAX_JOBS_PER_HYPERPERIOD
    THEN /\ job_log' = Append(job_log, rec)
         /\ job_count' = job_count + 1
    ELSE UNCHANGED <<job_log, job_count>>

\* job_log[job_count] = ...; job_count++ under the capacity guard
CycAppend(rec) ==
    IF job_count < MAX_JOBS_PER_HYPERPERIOD
    THEN /\ job_log' = Append(job_log, rec)
         /\ job_count' = job_count + 1
    ELSE UNCHANGED <<job_log, job_count>>

\* the timer fires: frame_callback up to the task loop
CycTick ==
    /\ model = "cyclic"
    /\ cyc.pc = "wait"
    /\ current_frame < MaxFrames
    /\ LET actual_time == Max(now, next_fire)
           base == IF current_frame = 0 THEN actual_time
                   ELSE scheduler_start_time
           fstart == FrameStart(base, current_frame)
       IN  /\ now' = actual_time
           /\ scheduler_start_time' = base
           /\ cyc' = [pc |-> "loop", i |-> 0,
                      local_frame |-> current_frame % NUM_FRAMES,
                      frame_start |-> fstart,
                      frame_deadline |-> fstart + (MINOR_FRAME_MS * 1000),
                      wcet |-> 0, sample |-> 0]
           /\ next_fire' = next_fire + MINOR_FRAME_MS * 1000
    /\ UNCHANGED rtosVars
    /\ UNCHANGED <<envVars, ioVars, current_frame, job_log, job_count,
                   hyperperiod_count, deadline_misses_current,
                   deadline_misses_total, report>>

CycTask == schedule[cyc.local_frame + 1][cyc.i + 1]

\* variant of CycSkip: the comparison lets a job with exactly enough time go
CycSkipInclusive(time_remaining, task_c_wcet_us) ==
    time_remaining <= task_c_wcet_us

\* variant of CycSkip: the operands of the comparison are swapped
CycSkipSwapped(time_remaining, task_c_wcet_us) ==
    task_c_wcet_us < time_remaining

\* if (time_remaining < (int64_t)task_c_wcet_us): not enough time, skip
CycSkip(time_remaining, task_c_wcet_us) == time_remaining < task_c_wcet_us

\* variant of CycCountMiss: the miss is signalled but not counted
CycCountMissForgotten(counter, missed) == counter

\* deadline_misses_current++ / deadline_misses_total++ of a missed job
CycCountMiss(counter, missed) == counter + (IF missed THEN 1 ELSE 0)

\* Task_C with time_remaining < task_c_wcet_us: logged as skipped, not run
CycSkipC ==
    /\ model = "cyclic"
    /\ cyc.pc = "loop"
    /\ cyc.i < num_tasks(cyc.local_frame)
    /\ CycTask = "C"
    /\ \E sw \in SwitchValues :
         /\ CanRead(sw)
         /\ ReadSwitch(sw)
         /\ LET task_c_wcet_us == TaskCWcetUs(sw)
                current_time == now
                time_remaining == cyc.frame_deadline - current_time
            IN  /\ CycSkip(time_remaining, task_c_wcet_us)
                /\ CycAppend([frame |-> cyc.local_frame, task_name |-> "C",
                              release_time |-> cyc.frame_start,
                              start_time |-> 0, completion_time |-> 0,
                              exec_time |-> 0,
                              deadline |-> cyc.frame_deadline,
                              deadline_missed |-> TRUE,
                              executed |-> FALSE,
                              sample |-> current_time,
                              wcet |-> task_c_wcet_us])
                /\ cyc' = [cyc EXCEPT !.i = cyc.i + 1,
                                      !.wcet = task_c_wcet_us,
                                      !.sample = current_time]
    /\ deadline_misses_current' = deadline_misses_current + 1
    /\ deadline_misses_total' = deadline_misses_total + 1
    /\ red_toggles' = red_toggles + 1
    /\ UNCHANGED rtosVars
    /\ UNCHANGED <<envVars, now, green_toggles, workload_calls, current_frame,
                   hyperperiod_count, scheduler_start_time, next_fire, report>>

\* Task_C with enough time left: falls through to the execution
CycPassC ==
    /\ model = "cyclic"
    /\ cyc.pc = "loop"
    /\ cyc.i < num_tasks(cyc.local_frame)
    /\ CycTask = "C"
    /\ \E sw \in SwitchValues :
         /\ CanRead(sw)
         /\ ReadSwitch(sw)
         /\ LET task_c_wcet_us == TaskCWcetUs(sw)
                current_time == now
                time_remaining == cyc.frame_deadline - current_time
            IN  /\ ~CycSkip(time_remaining, task_c_wcet_us)
                /\ cyc' = [cyc EXCEPT !.pc = "exec",
                                      !.wcet = task_c_wcet_us,
                                      !.sample = current_time]
    /\ UNCHANGED rtosVars
    /\ UNCHANGED <<envVars, now, red_toggles, green_toggles, workload_calls,
                   current_frame, job_log, job_count, hyperperiod_count,
                   scheduler_start_time, deadline_misses_current,
                   deadline_misses_total, next_fire, report>>

\* variant of CycMissed: a job that stops on the deadline counts as missed
CycMissedInclusive(stop, frame_deadline) == stop >= frame_deadline

\* deadline_missed of an executed job: result.stop > frame_deadline
CycMissed(stop, frame_deadline) == stop > frame_deadline

\* schedule[local_frame].tasks[i](&result), the record and the miss check
CycExec ==
    /\ model = "cyclic"
    /\ \/ cyc.pc = "exec"
       \/ /\ cyc.pc = "loop"
          /\ cyc.i < num_tasks(cyc.local_frame)
          /\ CycTask # "C"
    /\ \E sw \in SwitchValues :
         /\ IF CycTask = "C"
            THEN CanRead(sw) /\ ReadSwitch(sw)
            ELSE sw = switch_value /\ UNCHANGED <<switch_value, swChanges>>
         /\ LET start == now
                stop == start + JobBusyUs(CycTask, sw) + latency
                missed == CycMissed(stop, cyc.frame_deadline)
            IN  /\ now' = stop
                /\ CycAppend([frame |-> cyc.local_frame,
                              task_name |-> CycTask,
                              release_time |-> cyc.frame_start,
                              start_time |-> start,
                              completion_time |-> stop,
                              exec_time |-> stop - start,
                              deadline |-> cyc.frame_deadline,
                              deadline_missed |-> missed,
                              executed |-> TRUE,
                              sample |-> cyc.sample,
                              wcet |-> cyc.wcet])
                /\ deadline_misses_current' =
                       CycCountMiss(deadline_misses_current, missed)
                /\ deadline_misses_total' =
                       CycCountMiss(deadline_misses_total, missed)
                /\ red_toggles' = red_toggles + (IF missed THEN 1 ELSE 0)
    /\ workload_calls' = workload_calls + 1
    /\ cyc' = [cyc EXCEPT !.pc = "loop", !.i = cyc.i + 1,
                          !.wcet = 0, !.sample = 0]
    /\ UNCHANGED rtosVars
    /\ UNCHANGED <<envVars, green_toggles, current_frame, hyperperiod_count,
                   scheduler_start_time, next_fire, report>>

\* after the loop: current_frame++, and at a hyperperiod boundary the report
\* and the reset
CycFrameEnd ==
    /\ model = "cyclic"
    /\ cyc.pc = "loop"
    /\ cyc.i = num_tasks(cyc.local_frame)
    /\ current_frame' = current_frame + 1
    /\ IF (current_frame + 1) % NUM_FRAMES = 0
       THEN /\ green_toggles' = green_toggles + 1
            /\ report' = HyperperiodReport
            /\ job_count' = 0
            /\ job_log' = <<>>
            /\ deadline_misses_current' = 0
            /\ hyperperiod_count' = hyperperiod_count + 1
            /\ \E c \in ReportCosts : now' = now + c
       ELSE UNCHANGED <<green_toggles, report, job_count, job_log,
                        deadline_misses_current, hyperperiod_count, now>>
    /\ cyc' = [cyc EXCEPT !.pc = "wait"]
    /\ UNCHANGED rtosVars
    /\ UNCHANGED <<envVars, switch_value, swChanges, red_toggles,
                   workload_calls, scheduler_start_time,
                   deadline_misses_total, next_fire>>

CycNext == CycTick \/ CycSkipC \/ CycPassC \/ CycExec \/ CycFrameEnd

(* ------------------ priority scheduler: configuration ----------------- *)
\* the task_params_t initialisers of main()
period_ms(t) ==
    CASE t = "A" -> 10 [] t = "B" -> 5  [] t = "C" -> 25
      [] t = "D" -> 50 [] t = "E" -> 50 [] t = "F" -> 20

deadline_ms(t) ==
    CASE t = "A" -> 10 [] t = "B" -> 5  [] t = "C" -> 25
      [] t = "D" -> 50 [] t = "E" -> 50 [] t = "F" -> 20

priority(t) ==
    CASE t = "A" -> 5 [] t = "B" -> 6 [] t = "C" -> 1
      [] t = "D" -> 3 [] t = "E" -> 2 [] t = "F" -> 4

\* the priority the monitor task is created with
MonitorPriority == 0

\* the priorities the start-up banner of main() announces
announced_priority(t) ==
    CASE t = "A" -> 5 [] t = "B" -> 6 [] t = "C" -> 3
      [] t = "D" -> 2 [] t = "E" -> 1 [] t = "F" -> 4

Actors == TaskIds \cup {"M"}

(* --------------------- priority scheduler: kernel --------------------- *)
\* xTaskGetTickCount()
TickCount == (now - BootTime) \div TickUs

\* time_us_64() at which the tick count becomes k
TickTime(k) == BootTime + k * TickUs

PcOf(a) == IF a = "M" THEN mon.pc ELSE task[a].pc
WakeOf(a) == IF a = "M" THEN mon.wake ELSE task[a].wake
\* the priority a task was created with (xTaskCreate's uxPriority)
BasePriority(a) == IF a = "M" THEN MonitorPriority ELSE task[a].priority

TakePcs == {"skip_take", "log_take", "m_take"}

\* blocked in xSemaphoreTake(log_mutex, portMAX_DELAY)
Waiting(a) == PcOf(a) \in TakePcs /\ log_mutex # "none"

SetMax(S) == CHOOSE x \in S : \A y \in S : y <= x
SetMin(S) == CHOOSE x \in S : \A y \in S : x <= y

\* the holder of the mutex inherits the priority of the tasks waiting for it
EffPriority(a) ==
    IF log_mutex = a
    THEN SetMax({BasePriority(a)} \cup
                {BasePriority(w) : w \in {x \in Actors : Waiting(x)}})
    ELSE BasePriority(a)

Sleeping(a) == PcOf(a) = "sleep" /\ TickCount < WakeOf(a)

Ready(a) == ~Waiting(a) /\ ~Sleeping(a)

\* the task the fixed-priority preemptive scheduler has on the processor
Running(a) ==
    /\ model = "rtos"
    /\ TickCount < MaxTicks
    /\ Ready(a)
    /\ \A b \in Actors \ {a} : Ready(b) => EffPriority(b) < EffPriority(a)

\* the instants at which a task of higher priority than a leaves its delay
PreemptTimes(a) ==
    {TickTime(WakeOf(b)) : b \in {x \in Actors : Sleeping(x) /\
                                   BasePriority(x) > EffPriority(a)}}

\* microseconds a runs before it is done with rem or is preempted
Slice(a, rem) ==
    IF PreemptTimes(a) = {} THEN rem
    ELSE Min(rem, SetMin(PreemptTimes(a)) - now)

\* variant of DelayUntilWake: the period is added to the current tick, as
\* vTaskDelay would
DelayFromNow(xLastWakeTime, xPeriod) == TickCount + xPeriod

\* vTaskDelayUntil(&xLastWakeTime, xPeriod): the next wake time
DelayUntilWake(xLastWakeTime, xPeriod) == xLastWakeTime + xPeriod

\* xSemaphoreTake(log_mutex, portMAX_DELAY) succeeds when the mutex is free
MutexTake(a) ==
    /\ log_mutex = "none"
    /\ log_mutex' = a
    /\ cs_ops' = 0

\* variant of MutexGive: the give leaves the mutex with its holder
MutexGiveKept(a) ==
    /\ log_mutex = a
    /\ log_mutex' = log_mutex

\* xSemaphoreGive(log_mutex) by the holder
MutexGive(a) ==
    /\ log_mutex = a
    /\ log_mutex' = "none"

cycUnch == UNCHANGED cycVars

(* ------------------ priority scheduler: periodic_task ----------------- *)
InitTask(t) ==
    [pc |-> "start", priority |-> priority(t), job_count |-> 0, xLastWakeTime |-> 0,
     xFirstWakeTime |-> 0, wake |-> 0, rem |-> 0,
     release_time_us |-> 0, deadline_us |-> 0, skip_execution |-> FALSE,
     start |-> 0, stop |-> 0, missed |-> FALSE, wcet |-> 0, sample |-> 0]

\* xLastWakeTime = xTaskGetTickCount()
TaskStart(t) ==
    /\ task[t].pc = "start"
    /\ Running(t)
    /\ task' = [task EXCEPT ![t].pc = "init_check",
                            ![t].xLastWakeTime = TickCount,
                            ![t].xFirstWakeTime = TickCount]
    /\ UNCHANGED <<envVars, now, ioVars, mon, log_buffer, log_count,
                   log_mutex, scheduler_start_time_us, scheduler_initialized,
                   cs_ops>>
    /\ cycUnch

\* if (!scheduler_initialized)
TaskInitCheck(t) ==
    /\ task[t].pc = "init_check"
    /\ Running(t)
    /\ task' = [task EXCEPT ![t].pc = IF scheduler_initialized
                                      THEN "release" ELSE "init_time"]
    /\ UNCHANGED <<envVars, now, ioVars, mon, log_buffer, log_count,
                   log_mutex, scheduler_start_time_us, scheduler_initialized,
                   cs_ops>>
    /\ cycUnch

\* scheduler_start_time_us = time_us_64()
TaskInitTime(t) ==
    /\ task[t].pc = "init_time"
    /\ Running(t)
    /\ scheduler_start_time_us' = now
    /\ task' = [task EXCEPT ![t].pc = "init_flag"]
    /\ UNCHANGED <<envVars, now, ioVars, mon, log_buffer, log_count,
                   log_mutex, scheduler_initialized, cs_ops>>
    /\ cycUnch

\* variant of TaskInitFlag: the flag is left unset
TaskInitFlagForgotten(t) ==
    /\ task[t].pc = "init_flag"
    /\ Running(t)
    /\ scheduler_initialized' = scheduler_initialized
    /\ task' = [task EXCEPT ![t].pc = "release"]
    /\ UNCHANGED <<envVars, now, ioVars, mon, log_buffer, log_count,
                   log_mutex, scheduler_start_time_us, cs_ops>>
    /\ cycUnch

\* scheduler_initialized = true
TaskInitFlag(t) ==
    /\ task[t].pc = "init_flag"
    /\ Running(t)
    /\ scheduler_initialized' = TRUE
    /\ task' = [task EXCEPT ![t].pc = "release"]
    /\ UNCHANGED <<envVars, now, ioVars, mon, log_buffer, log_count,
                   log_mutex, scheduler_start_time_us, cs_ops>>
    /\ cycUnch

\* release_time_us = scheduler_start_time_us + job_count * period_ms * 1000
ReleaseTimeUs(base, count, t) == base + count * period_ms(t) * 1000

\* top of the loop: release time and deadline of this job
TaskRelease(t) ==
    /\ task[t].pc = "release"
    /\ Running(t)
    /\ LET release == ReleaseTimeUs(scheduler_start_time_us,
                                    task[t].job_count, t)
       IN  task' = [task EXCEPT
                      ![t].pc = IF t = "C" THEN "check" ELSE "exec_start",
                      ![t].release_time_us = release,
                      ![t].deadline_us = release + (deadline_ms(t) * 1000),
                      ![t].skip_execution = FALSE,
                      ![t].wcet = 0, ![t].sample = 0]
    /\ UNCHANGED <<envVars, now, ioVars, mon, log_buffer, log_count,
                   log_mutex, scheduler_start_time_us, scheduler_initialized,
                   cs_ops>>
    /\ cycUnch

\* if (time_remaining < (int64_t)task_c_wcet_us): skip_execution = true
TaskSkip(time_remaining, task_c_wcet_us) == time_remaining < task_c_wcet_us

\* Task_C: the switch bank, the predicted duration and the skip decision
TaskCheckC(t) ==
    /\ task[t].pc = "check"
    /\ Running(t)
    /\ \E sw \in SwitchValues :
         /\ CanRead(sw)
         /\ ReadSwitch(sw)
         /\ LET task_c_wcet_us == TaskCWcetUs(sw)
                current_time == now
                time_remaining == task[t].deadline_us - current_time
                skip == TaskSkip(time_remaining, task_c_wcet_us)
            IN  /\ task' = [task EXCEPT
                              ![t].pc = IF skip THEN "skip_take"
                                        ELSE "exec_start",
                              ![t].skip_execution = skip,
                              ![t].wcet = task_c_wcet_us,
                              ![t].sample = current_time]
                /\ red_toggles' = red_toggles + (IF skip THEN 1 ELSE 0)
    /\ UNCHANGED <<envVars, now, green_toggles, workload_calls, mon,
                   log_buffer, log_count, log_mutex, scheduler_start_time_us,
                   scheduler_initialized, cs_ops>>
    /\ cycUnch

\* xSemaphoreTake(log_mutex, portMAX_DELAY) of either logging block
TaskTake(t) ==
    /\ task[t].pc \in {"skip_take", "log_take"}
    /\ Running(t)
    /\ MutexTake(t)
    /\ task' = [task EXCEPT ![t].pc = IF task[t].pc = "skip_take"
                                      THEN "skip_write" ELSE "log_write"]
    /\ UNCHANGED <<envVars, now, ioVars, mon, log_buffer, log_count,
                   scheduler_start_time_us, scheduler_initialized>>
    /\ cycUnch

\* variant of LogAppend: the record is written without the capacity guard
LogAppendUnguarded(rec) ==
    /\ log_buffer' = Append(log_buffer, rec)
    /\ log_count' = log_count + 1

\* log_buffer[log_count] = ...; log_count++ under the capacity guard
LogAppend(rec) ==
    IF log_count < MAX_LOGS_PER_HYPERPERIOD
    THEN /\ log_buffer' = Append(log_buffer, rec)
         /\ log_count' = log_count + 1
    ELSE UNCHANGED <<log_buffer, log_count>>

\* the record of a skipped Task_C job
TaskLogSkipped(t) ==
    /\ task[t].pc = "skip_write"
    /\ Running(t)
    /\ log_mutex = t
    /\ LogAppend([task_name |-> t, seq |-> task[t].job_count,
                  release_time |-> task[t].release_time_us,
                  start_time |-> 0, finish_time |-> 0, exec_time |-> 0,
                  deadline |-> task[t].deadline_us,
                  deadline_missed |-> TRUE, skipped |-> TRUE,
                  executed |-> FALSE, sample |-> task[t].sample,
                  wcet |-> task[t].wcet])
    /\ cs_ops' = cs_ops + 1
    /\ task' = [task EXCEPT ![t].pc = "skip_give"]
    /\ UNCHANGED <<envVars, now, ioVars, mon, log_mutex,
                   scheduler_start_time_us, scheduler_initialized>>
    /\ cycUnch

\* job_func(&result) is entered: result.start and the busy wait to do
TaskExecStart(t) ==
    /\ task[t].pc = "exec_start"
    /\ Running(t)
    /\ \E sw \in SwitchValues :
         /\ IF t = "C"
            THEN CanRead(sw) /\ ReadSwitch(sw)
            ELSE sw = switch_value /\ UNCHANGED <<switch_value, swChanges>>
         /\ task' = [task EXCEPT ![t].pc = "exec",
                                 ![t].start = now,
                                 ![t].rem = JobBusyUs(t, sw) + latency]
    /\ workload_calls' = workload_calls + 1
    /\ UNCHANGED <<envVars, now, red_toggles, green_toggles, mon, log_buffer,
                   log_count, log_mutex, scheduler_start_time_us,
                   scheduler_initialized, cs_ops>>
    /\ cycUnch

\* the busy wait runs until it is done or a higher-priority task preempts;
\* when it is done, result.stop is read
TaskRun(t) ==
    /\ task[t].pc = "exec"
    /\ Running(t)
    /\ LET d == Slice(t, task[t].rem)
       IN  /\ now' = now + d
           /\ task' = [task EXCEPT
                         ![t].rem = task[t].rem - d,
                         ![t].stop = IF d = task[t].rem THEN now + d
                                     ELSE task[t].stop,
                         ![t].pc = IF d = task[t].rem THEN "classify"
                                   ELSE "exec"]
    /\ UNCHANGED <<envVars, ioVars, mon, log_buffer, log_count, log_mutex,
                   scheduler_start_time_us, scheduler_initialized, cs_ops>>
    /\ cycUnch

\* bool missed = (result.stop > deadline_us)
TaskMissed(stop, deadline_us) == stop > deadline_us

\* the deadline check after the job and the red LED
TaskClassify(t) ==
    /\ task[t].pc = "classify"
    /\ Running(t)
    /\ LET missed == TaskMissed(task[t].stop, task[t].deadline_us)
       IN  /\ task' = [task EXCEPT ![t].pc = "log_take",
                                   ![t].missed = missed]
           /\ red_toggles' = red_toggles + (IF missed THEN 1 ELSE 0)
    /\ UNCHANGED <<envVars, now, switch_value, swChanges, green_toggles,
                   workload_calls, mon, log_buffer, log_count, log_mutex,
                   scheduler_start_time_us, scheduler_initialized, cs_ops>>
    /\ cycUnch

\* the record of an executed job
TaskLogExecuted(t) ==
    /\ task[t].pc = "log_write"
    /\ Running(t)
    /\ log_mutex = t
    /\ LogAppend([task_name |-> t, seq |-> task[t].job_count,
                  release_time |-> task[t].release_time_us,
                  start_time |-> task[t].start,
                  finish_time |-> task[t].stop,
                  exec_time |-> task[t].stop - task[t].start,
                  deadline |-> task[t].deadline_us,
                  deadline_missed |-> task[t].missed, skipped |-> FALSE,
                  executed |-> TRUE, sample |-> task[t].sample,
                  wcet |-> task[t].wcet])
    /\ cs_ops' = cs_ops + 1
    /\ task' = [task EXCEPT ![t].pc = "log_give"]
    /\ UNCHANGED <<envVars, now, ioVars, mon, log_mutex,
                   scheduler_start_time_us, scheduler_initialized>>
    /\ cycUnch

\* xSemaphoreGive(log_mutex) of either logging block
TaskGive(t) ==
    /\ task[t].pc \in {"skip_give", "log_give"}
    /\ Running(t)
    /\ MutexGive(t)
    /\ task' = [task EXCEPT ![t].pc = "incr"]
    /\ UNCHANGED <<envVars, now, ioVars, mon, log_buffer, log_count,
                   scheduler_start_time_us, scheduler_initialized, cs_ops>>
    /\ cycUnch

\* variant of TaskIncr: a skipped job is not counted
TaskIncrExecutedOnly(t) ==
    /\ task[t].pc = "incr"
    /\ Running(t)
    /\ task' = [task EXCEPT ![t].pc = "delay",
                            ![t].job_count =
                                IF task[t].skip_execution
                                THEN task[t].job_count
                                ELSE task[t].job_count + 1]
    /\ UNCHANGED <<envVars, now, ioVars, mon, log_buffer, log_count,
                   log_mutex, scheduler_start_time_us, scheduler_initialized,
                   cs_ops>>
    /\ cycUnch

\* params->job_count++
TaskIncr(t) ==
    /\ task[t].pc = "incr"
    /\ Running(t)
    /\ task' = [task EXCEPT ![t].pc = "delay",
                            ![t].job_count = task[t].job_count + 1]
    /\ UNCHANGED <<envVars, now, ioVars, mon, log_buffer, log_count,
                   log_mutex, scheduler_start_time_us, scheduler_initialized,
                   cs_ops>>
    /\ cycUnch

\* vTaskDelayUntil(&xLastWakeTime, xPeriod): the task leaves the processor
\* until the wake tick; a wake tick already reached does not block
TaskDelayUntil(t) ==
    /\ task[t].pc = "delay"
    /\ Running(t)
    /\ LET w == DelayUntilWake(task[t].xLastWakeTime, period_ms(t))
       IN  task' = [task EXCEPT ![t].pc = "sleep",
                                ![t].xLastWakeTime = w,
                                ![t].wake = w]
    /\ UNCHANGED <<envVars, now, ioVars, mon, log_buffer, log_count,
                   log_mutex, scheduler_start_time_us, scheduler_initialized,
                   cs_ops>>
    /\ cycUnch

\* vTaskDelayUntil returns at the wake tick
TaskWake(t) ==
    /\ task[t].pc = "sleep"
    /\ Running(t)
    /\ task' = [task EXCEPT ![t].pc = "release"]
    /\ UNCHANGED <<envVars, now, ioVars, mon, log_buffer, log_count,
                   log_mutex, scheduler_start_time_us, scheduler_initialized,
                   cs_ops>>
    /\ cycUnch

(* ------------------ priority scheduler: monitor_task ------------------ *)
InitMon ==
    [pc |-> "start", xLastWakeTime |-> 0, wake |-> 0, hyperperiod_count |-> 0,
     i |-> 0, deadline_misses |-> 0, skipped_count |-> 0, ok_lines |-> 0,
     miss_lines |-> 0, rem |-> 0, cost |-> 0]

\* the status column monitor_task prints for a record
MonStatus(r) ==
    IF r.skipped THEN "SKIPPED"
    ELSE IF r.deadline_missed THEN "MISS"
    ELSE "OK"

monUnch == UNCHANGED <<envVars, ioVars, task, scheduler_start_time_us,
                       scheduler_initialized>>

\* xLastWakeTime = xTaskGetTickCount()
MonStart ==
    /\ mon.pc = "start"
    /\ Running("M")
    /\ mon' = [mon EXCEPT !.pc = "delay", !.xLastWakeTime = TickCount]
    /\ UNCHANGED <<now, log_buffer, log_count, log_mutex, cs_ops, report>>
    /\ UNCHANGED <<current_frame, job_log, job_count, hyperperiod_count,
                   scheduler_start_time, deadline_misses_current,
                   deadline_misses_total, cyc, next_fire>>
    /\ monUnch

\* vTaskDelayUntil(&xLastWakeTime, xPeriod), before the loop and at its end
MonDelayUntil ==
    /\ mon.pc = "delay"
    /\ Running("M")
    /\ LET w == DelayUntilWake(mon.xLastWakeTime, HYPERPERIOD_MS)
       IN  mon' = [mon EXCEPT !.pc = "sleep", !.xLastWakeTime = w, !.wake = w]
    /\ UNCHANGED <<now, log_buffer, log_count, log_mutex, cs_ops, report>>
    /\ UNCHANGED <<current_frame, job_log, job_count, hyperperiod_count,
                   scheduler_start_time, deadline_misses_current,
                   deadline_misses_total, cyc, next_fire>>
    /\ monUnch

\* the delay is over: hyperperiod_count++ and the banner
MonWake ==
    /\ mon.pc = "sleep"
    /\ Running("M")
    /\ mon' = [mon EXCEPT !.pc = "m_take",
                          !.hyperperiod_count = mon.hyperperiod_count + 1]
    /\ UNCHANGED <<now, log_buffer, log_count, log_mutex, cs_ops, report>>
    /\ UNCHANGED <<current_frame, job_log, job_count, hyperperiod_count,
                   scheduler_start_time, deadline_misses_current,
                   deadline_misses_total, cyc, next_fire>>
    /\ monUnch

\* variant of MonTake: the monitor goes on to read the log without taking
\* log_mutex
MonTakeUnlocked ==
    /\ mon.pc = "m_take"
    /\ Running("M")
    /\ \E c \in PrintCosts :
         mon' = [mon EXCEPT !.pc = "m_print", !.i = 0, !.deadline_misses = 0,
                            !.skipped_count = 0, !.ok_lines = 0,
                            !.miss_lines = 0, !.rem = 0, !.cost = c]
    /\ UNCHANGED <<now, log_buffer, log_count, log_mutex, cs_ops, report>>
    /\ UNCHANGED <<current_frame, job_log, job_count, hyperperiod_count,
                   scheduler_start_time, deadline_misses_current,
                   deadline_misses_total, cyc, next_fire>>
    /\ monUnch

\* xSemaphoreTake(log_mutex, portMAX_DELAY); the counters of this report
MonTake ==
    /\ mon.pc = "m_take"
    /\ Running("M")
    /\ MutexTake("M")
    /\ \E c \in PrintCosts :
         mon' = [mon EXCEPT !.pc = "m_print", !.i = 0, !.deadline_misses = 0,
                            !.skipped_count = 0, !.ok_lines = 0,
                            !.miss_lines = 0, !.rem = 0, !.cost = c]
    /\ UNCHANGED <<now, log_buffer, log_count, report>>
    /\ UNCHANGED <<current_frame, job_log, job_count, hyperperiod_count,
                   scheduler_start_time, deadline_misses_current,
                   deadline_misses_total, cyc, next_fire>>
    /\ monUnch

\* the counters after the line of record r
MonCount(m, r) ==
    [m EXCEPT
       !.skipped_count = m.skipped_count +
                         (IF MonStatus(r) = "SKIPPED" THEN 1 ELSE 0),
       !.deadline_misses = m.deadline_misses +
                           (IF MonStatus(r) \in {"SKIPPED", "MISS"}
                            THEN 1 ELSE 0),
       !.miss_lines = m.miss_lines + (IF MonStatus(r) = "MISS" THEN 1 ELSE 0),
       !.ok_lines = m.ok_lines + (IF MonStatus(r) = "OK" THEN 1 ELSE 0)]

\* one iteration of the print loop: the status and the line of record i
MonRecord ==
    /\ mon.pc = "m_print"
    /\ mon.rem = 0
    /\ mon.i < log_count
    /\ Running("M")
    /\ log_mutex = "M"
    /\ mon' = [MonCount(mon, log_buffer[mon.i + 1]) EXCEPT
                 !.i = mon.i + 1, !.rem = mon.cost]
    /\ cs_ops' = cs_ops + 1
    /\ UNCHANGED <<now, log_buffer, log_count, log_mutex, report>>
    /\ UNCHANGED <<current_frame, job_log, job_count, hyperperiod_count,
                   scheduler_start_time, deadline_misses_current,
                   deadline_misses_total, cyc, next_fire>>
    /\ monUnch

\* the printf of a line keeps the monitor on the processor, unless a
\* higher-priority task preempts it
MonPrinting ==
    /\ mon.pc = "m_print"
    /\ mon.rem > 0
    /\ Running("M")
    /\ LET d == Slice("M", mon.rem)
       IN  /\ now' = now + d
           /\ mon' = [mon EXCEPT !.rem = mon.rem - d]
    /\ UNCHANGED <<log_buffer, log_count, log_mutex, cs_ops, report>>
    /\ UNCHANGED <<current_frame, job_log, job_count, hyperperiod_count,
                   scheduler_start_time, deadline_misses_current,
                   deadline_misses_total, cyc, next_fire>>
    /\ monUnch

\* what the monitor prints below the table
MonReport ==
    [hyperperiod |-> mon.hyperperiod_count,
     jobs |-> log_count,
     ok |-> mon.ok_lines,
     miss |-> mon.miss_lines,
     skipped |-> mon.skipped_count,
     misses_current |-> mon.deadline_misses,
     misses_total |-> 0,
     printed |-> report.printed + 1]

\* variant of MonResetCount: the reset keeps the oldest record
MonResetKeepsOne == Min(log_count, 1)

\* log_count after the monitor's reset
MonResetCount == 0

\* after the loop: the totals and log_count = 0
MonReset ==
    /\ mon.pc = "m_print"
    /\ mon.rem = 0
    /\ Running("M")
    /\ ~(mon.i < log_count)
    /\ log_mutex = "M"
    /\ report' = MonReport
    /\ log_count' = MonResetCount
    /\ log_buffer' = SubSeq(log_buffer, 1, MonResetCount)
    /\ mon' = [mon EXCEPT !.pc = "m_give"]
    /\ UNCHANGED <<now, log_mutex, cs_ops>>
    /\ UNCHANGED <<current_frame, job_log, job_count, hyperperiod_count,
                   scheduler_start_time, deadline_misses_current,
                   deadline_misses_total, cyc, next_fire>>
    /\ monUnch

\* xSemaphoreGive(log_mutex)
MonGive ==
    /\ mon.pc = "m_give"
    /\ Running("M")
    /\ MutexGive("M")
    /\ mon' = [mon EXCEPT !.pc = "delay"]
    /\ UNCHANGED <<now, log_buffer, log_count, cs_ops, report>>
    /\ UNCHANGED <<current_frame, job_log, job_count, hyperperiod_count,
                   scheduler_start_time, deadline_misses_current,
                   deadline_misses_total, cyc, next_fire>>
    /\ monUnch

\* no task is ready: the idle task runs until the next wake tick
RtosIdle ==
    /\ model = "rtos"
    /\ TickCount < MaxTicks
    /\ \A a \in Actors : ~Ready(a)
    /\ \E a \in Actors : Sleeping(a)
    /\ now' = SetMin({TickTime(WakeOf(a)) : a \in {x \in Actors : Sleeping(x)}})
    /\ UNCHANGED <<envVars, ioVars, cycVars, rtosVars>>

TaskNext(t) ==
    \/ TaskStart(t) \/ TaskInitCheck(t) \/ TaskInitTime(t) \/ TaskInitFlag(t)
    \/ TaskRelease(t) \/ TaskCheckC(t) \/ TaskTake(t) \/ TaskLogSkipped(t)
    \/ TaskExecStart(t) \/ TaskRun(t) \/ TaskClassify(t)
    \/ TaskLogExecuted(t) \/ TaskGive(t) \/ TaskIncr(t)
    \/ TaskDelayUntil(t) \/ TaskWake(t)

MonNext ==
    \/ MonStart \/ MonDelayUntil \/ MonWake \/ MonTake \/ MonRecord
    \/ MonPrinting \/ MonReset \/ MonGive

RtosNext == (\E t \in TaskIds : TaskNext(t)) \/ MonNext \/ RtosIdle

(* ------------- frame_callback: the frame arithmetic alone ------------- *)
\* the state of the dispatcher's counters and frame times, all in full width
NoFrame ==
    [pc |-> "off", steps |-> 0, tick_count |-> WideFromInt(0),
     current_frame |-> U32FromInt(0), base_time |-> WideFromInt(0),
     scheduler_start_time |-> WideFromInt(0), local_frame |-> 0,
     frame_start |-> WideFromInt(0), frame_deadline |-> WideFromInt(0)]

\* tick numbers the arithmetic is followed from: the start, the ticks
\* before current_frame * 5000 reaches 2^31 and 2^32, and the ticks before
\* current_frame itself reaches 2^32
FrameSamples ==
    {U32FromInt(0), U32FromInt(429490), U32FromInt(858985),
     [hi |-> Limb - 1, lo |-> Limb - 8]}

\* the dispatcher about to take tick number k, its timer having been on time
FrameAt(k) ==
    [NoFrame EXCEPT
       !.pc = "wait", !.tick_count = k, !.current_frame = k,
       !.base_time = WideFromInt(BootTime + MINOR_FRAME_MS * 1000),
       !.scheduler_start_time =
           IF k = U32FromInt(0) THEN WideFromInt(0)
           ELSE WideFromInt(BootTime + MINOR_FRAME_MS * 1000)]

frUnch == UNCHANGED <<model, latency, load, now, ioVars, cycVars, rtosVars>>

\* frame_callback up to the task loop: local_frame, the start time on the
\* first callback, frame_start and frame_deadline
FrameCallback ==
    /\ model = "frame"
    /\ fr.pc = "wait"
    /\ LET actual_time == WideAdd(fr.base_time,
                                  WideMulSmall(fr.tick_count,
                                               MINOR_FRAME_MS * 1000))
           base == IF fr.current_frame = U32FromInt(0) THEN actual_time
                   ELSE fr.scheduler_start_time
           fstart == FrameStartWide(base, fr.current_frame)
       IN  fr' = [fr EXCEPT
                    !.pc = "loop",
                    !.local_frame = U32ModSmall(fr.current_frame, NUM_FRAMES),
                    !.scheduler_start_time = base,
                    !.frame_start = fstart,
                    !.frame_deadline =
                        WideAdd(fstart, WideFromInt(MINOR_FRAME_MS * 1000))]
    /\ frUnch

\* current_frame++ at the end of the callback
FrameAdvance ==
    /\ model = "frame"
    /\ fr.pc = "loop"
    /\ fr.steps < MaxFrameSteps
    /\ fr' = [fr EXCEPT !.pc = "wait", !.steps = fr.steps + 1,
                        !.current_frame = U32Inc(fr.current_frame),
                        !.tick_count = WideAdd(fr.tick_count, WideFromInt(1))]
    /\ frUnch

FrameNext == FrameCallback \/ FrameAdvance

(* ----------------- schedule table: the load of a frame ---------------- *)
NoLoad == [pc |-> "off", frame |-> 0, value |-> 0, i |-> 0, sum |-> 0]

\* the nominal duration of a task of the table, Task_C at the duration the
\* switch value gives it
LoadOf(t, value) == IF t = "C" THEN TaskCWcetUs(value) ELSE NominalUs(t)

loadUnch == UNCHANGED <<model, latency, fr, now, ioVars, cycVars, rtosVars>>

\* the next task of the frame is added to the load
LoadAdd ==
    /\ model = "load"
    /\ load.pc = "add"
    /\ load.i < num_tasks(load.frame)
    /\ load' = [load EXCEPT
                  !.i = load.i + 1,
                  !.sum = load.sum +
                          LoadOf(schedule[load.frame + 1][load.i + 1],
                                 load.value)]
    /\ loadUnch

\* every task of the frame is counted
LoadDone ==
    /\ model = "load"
    /\ load.pc = "add"
    /\ load.i = num_tasks(load.frame)
    /\ load' = [load EXCEPT !.pc = "done"]
    /\ loadUnch

LoadNext == LoadAdd \/ LoadDone

(* ------------------------------ the system ---------------------------- *)
Init ==
    /\ model \in {"cyclic", "rtos"}
    /\ fr = NoFrame
    /\ load = NoLoad
    /\ now = BootTime
    /\ latency \in Latencies
    /\ switch_value \in SwitchValues
    /\ swChanges = 0
    /\ red_toggles = 0
    /\ green_toggles = 0
    /\ workload_calls = 0
    /\ current_frame = 0
    /\ job_log = <<>>
    /\ job_count = 0
    /\ hyperperiod_count = 0
    /\ scheduler_start_time = 0
    /\ deadline_misses_current = 0
    /\ deadline_misses_total = 0
    /\ cyc = [pc |-> "wait", i |-> 0, local_frame |-> 0, frame_start |-> 0,
              frame_deadline |-> 0, wcet |-> 0, sample |-> 0]
    /\ next_fire = BootTime + MINOR_FRAME_MS * 1000
    /\ report = NoReport
    /\ task = [t \in TaskIds |-> InitTask(t)]
    /\ mon = InitMon
    /\ log_buffer = <<>>
    /\ log_count = 0
    /\ log_mutex = "none"
    /\ scheduler_start_time_us = 0
    /\ scheduler_initialized = FALSE
    /\ cs_ops = 0

Next == CycNext \/ RtosNext

Spec == Init /\ [][Next]_vars

\* the cyclic executive alone
InitCyc == Init /\ model = "cyclic"
SpecCyc == InitCyc /\ [][CycNext]_vars

\* the priority scheduler alone
InitRtos == Init /\ model = "rtos"
SpecRtos == InitRtos /\ [][RtosNext]_vars

\* the processor is never left unused while a task, the monitor or the idle
\* task can take a step: the kernel always dispatches the highest-priority
\* ready task; the runs followed are those with the shorter call overhead
InitRtosFair == InitRtos /\ latency = SetMin(Latencies)
SpecRtosFair == InitRtosFair /\ [][RtosNext]_vars /\ WF_vars(RtosNext)

\* the frame arithmetic alone, from each sampled tick number
InitFrame ==
    /\ model = "frame"
    /\ fr \in {FrameAt(k) : k \in FrameSamples}
    /\ load = NoLoad
    /\ now = BootTime
    /\ latency = SetMin(Latencies)
    /\ switch_value = SetMin(SwitchValues)
    /\ swChanges = 0
    /\ red_toggles = 0
    /\ green_toggles = 0
    /\ workload_calls = 0
    /\ current_frame = 0
    /\ job_log = <<>>
    /\ job_count = 0
    /\ hyperperiod_count = 0
    /\ scheduler_start_time = 0
    /\ deadline_misses_current = 0
    /\ deadline_misses_total = 0
    /\ cyc = [pc |-> "wait", i |-> 0, local_frame |-> 0, frame_start |-> 0,
              frame_deadline |-> 0, wcet |-> 0, sample |-> 0]
    /\ next_fire = BootTime + MINOR_FRAME_MS * 1000
    /\ report = NoReport
    /\ task = [t \in TaskIds |-> InitTask(t)]
    /\ mon = InitMon
    /\ log_buffer = <<>>
    /\ log_count = 0
    /\ log_mutex = "none"
    /\ scheduler_start_time_us = 0
    /\ scheduler_initialized = FALSE
    /\ cs_ops = 0
SpecFrame == InitFrame /\ [][FrameNext]_vars

\* the load of every frame of the table at every switch value
InitLoad ==
    /\ model = "load"
    /\ load \in {[NoLoad EXCEPT !.pc = "add", !.frame = f, !.value = v] :
                    f \in 0..(NUM_FRAMES - 1), v \in SensorValues}
    /\ fr = NoFrame
    /\ now = BootTime
    /\ latency = SetMin(Latencies)
    /\ switch_value = SetMin(SwitchValues)
    /\ swChanges = 0
    /\ red_toggles = 0
    /\ green_toggles = 0
    /\ workload_calls = 0
    /\ current_frame = 0
    /\ job_log = <<>>
    /\ job_count = 0
    /\ hyperperiod_count = 0
    /\ scheduler_start_time = 0
    /\ deadline_misses_current = 0
    /\ deadline_misses_total = 0
    /\ cyc = [pc |-> "wait", i |-> 0, local_frame |-> 0, frame_start |-> 0,
              frame_deadline |-> 0, wcet |-> 0, sample |-> 0]
    /\ next_fire = BootTime + MINOR_FRAME_MS * 1000
    /\ report = NoReport
    /\ task = [t \in TaskIds |-> InitTask(t)]
    /\ mon = InitMon
    /\ log_buffer = <<>>
    /\ log_count = 0
    /\ log_mutex = "none"
    /\ scheduler_start_time_us = 0
    /\ scheduler_initialized = FALSE
    /\ cs_ops = 0
SpecLoad == InitLoad /\ [][LoadNext]_vars

(* ============================== properties ============================ *)

(* ---- C1 ---- *)

\* C1: in both programs every logged record that is not SKIPPED is classified
\* consistently with its timestamps: a record printed OK completed no later
\* than its deadline, a record printed MISS completed after its deadline.
C1_ClassificationMatchesTimestamps ==
    /\ \A i \in 1..job_count :
         LET r == job_log[i]
         IN  /\ CycStatus(r) = "OK" => r.completion_time <= r.deadline
             /\ CycStatus(r) = "MISS" => r.completion_time > r.deadline
    /\ \A i \in 1..log_count :
         LET r == log_buffer[i]
         IN  /\ MonStatus(r) = "OK" => r.finish_time <= r.deadline
             /\ MonStatus(r) = "MISS" => r.finish_time > r.deadline

\* a cyclic log holding a MISS record and an OK record that completed exactly
\* on its deadline
C1_Witness ==
    /\ model = "cyclic"
    /\ \E i, j \in 1..job_count :
         /\ CycStatus(job_log[i]) = "MISS"
         /\ CycStatus(job_log[j]) = "OK"
         /\ job_log[j].completion_time = job_log[j].deadline

(* ---- C2 ---- *)
\* the durations the schedulers can predict for Task_C
PredictedDurations == {TaskCWcetUs(v) : v \in 0..255}

SkippedRecordOk(r, start, stop) ==
    /\ start = 0
    /\ stop = 0
    /\ r.exec_time = 0
    /\ ~r.executed
    /\ r.wcet \in PredictedDurations
    /\ r.deadline - r.sample < r.wcet

\* job_C keeps the processor for a positive time at every switch value (a
\* fact of the workload alone, evaluated where the logs are empty)
ExecutedNeverZero == \A v \in 0..255 : JobBusyUs("C", v) > 0

\* C2: in both programs a record logged as SKIPPED has start = completion =
\* exec_time = 0, its workload was not invoked, and the skip was decided
\* because deadline - sample time was strictly below the predicted duration
\* (switch_value * 8000) / 256.  (An executed Task_C job has a positive
\* exec_time for every switch value, so no executed job prints as SKIPPED.)
C2_SkippedRecords ==
    /\ (job_count = 0 /\ log_count = 0) => ExecutedNeverZero
    /\ \A i \in 1..job_count :
         CycStatus(job_log[i]) = "SKIPPED" =>
             SkippedRecordOk(job_log[i], job_log[i].start_time,
                             job_log[i].completion_time)
    /\ \A i \in 1..log_count :
         MonStatus(log_buffer[i]) = "SKIPPED" =>
             SkippedRecordOk(log_buffer[i], log_buffer[i].start_time,
                             log_buffer[i].finish_time)

\* Task_C skipped by the cyclic dispatcher with some time left, though less
\* than predicted
C2_Witness ==
    /\ model = "cyclic"
    /\ \E i \in 1..job_count :
         /\ CycStatus(job_log[i]) = "SKIPPED"
         /\ job_log[i].deadline - job_log[i].sample > 0

(* ---- C3 ---- *)
\* frames of the schedule table that list task t
TableOccurrences(t) ==
    Cardinality({f \in 1..NUM_FRAMES :
                   \E k \in 1..Len(schedule[f]) : schedule[f][k] = t})

\* job attempts of task t in the log of the running hyperperiod
LoggedJobs(t) ==
    Cardinality({i \in 1..job_count : job_log[i].task_name = t})

\* the last frame of a hyperperiod has run and the report is about to print
AtHyperperiodEnd ==
    /\ model = "cyclic"
    /\ cyc.pc = "loop"
    /\ cyc.i = num_tasks(cyc.local_frame)
    /\ (current_frame + 1) % NUM_FRAMES = 0

\* C3: every task appears in hyperperiod / period frames of the schedule
\* table (A 10, B 20, C 4, D 2, E 2, F 5), so a hyperperiod dispatches that
\* many jobs of it.
C3_TableOccurrences ==
    AtHyperperiodEnd =>
        \A t \in TaskIds :
            /\ TableOccurrences(t) = HYPERPERIOD_MS \div period_ms(t)
            /\ LoggedJobs(t) = HYPERPERIOD_MS \div period_ms(t)

(* ---- C4 ---- *)
\* C4: the priorities the periodic tasks run with are rate-monotonic (a
\* strictly shorter period has a strictly higher priority) and stay as
\* configured.
C4_RateMonotonic ==
    \A t, u \in TaskIds :
        /\ task[t].priority = priority(t)
        /\ period_ms(t) < period_ms(u) => task[t].priority > task[u].priority

(* ---- C5 ---- *)
\* jobs of t that are behind it where the release time is concerned
ReleasedJobs(t) ==
    IF task[t].pc \in {"delay", "sleep", "release"} /\ task[t].job_count > 0
    THEN task[t].job_count - 1
    ELSE task[t].job_count

\* vTaskDelayUntil calls t has made
DelayCalls(t) ==
    IF task[t].pc = "delay" THEN task[t].job_count - 1 ELSE task[t].job_count

\* C5: under the priority scheduler the release time of the nth job of a
\* task is base + n * period whatever ran before, and the wake time advances
\* by one period per job from the first wake time, never from the current
\* tick.
C5_AntiDrift ==
    /\ \A t \in TaskIds :
         /\ task[t].pc \notin {"start", "init_check", "init_time",
                               "init_flag"}
              => /\ \/ task[t].pc = "release" /\ task[t].job_count = 0
                    \/ task[t].release_time_us =
                         scheduler_start_time_us
                           + ReleasedJobs(t) * period_ms(t) * 1000
                 /\ task[t].xLastWakeTime =
                      task[t].xFirstWakeTime + DelayCalls(t) * period_ms(t)
    /\ \A i \in 1..log_count :
         log_buffer[i].release_time =
             scheduler_start_time_us
               + log_buffer[i].seq * period_ms(log_buffer[i].task_name) * 1000

\* a later job of Task_E, whose earlier job was preempted while it ran
C5_Witness ==
    /\ model = "rtos"
    /\ task["E"].job_count >= 1
    /\ task["E"].pc = "exec"
    /\ \E i \in 1..log_count :
         /\ log_buffer[i].task_name = "E"
         /\ log_buffer[i].exec_time > NominalUs("E") + latency

(* ---- C6 ---- *)
MissStatuses == {"MISS", "SKIPPED"}

\* the counters and the printed totals agree with the statuses of the records
MissCountsAgree ==
    /\ model = "cyclic" =>
         deadline_misses_current =
             Cardinality({i \in 1..job_count :
                            CycStatus(job_log[i]) \in MissStatuses})
    /\ report.misses_current = report.miss + report.skipped
    /\ report.jobs = report.ok + report.miss + report.skipped

\* a job attempt of the cyclic dispatcher moves both counters by one exactly
\* when its record is MISS or SKIPPED
MissCountStep ==
    (model = "cyclic" /\ job_count' = job_count + 1) =>
        LET r == job_log'[job_count']
            d == IF CycStatus(r) \in MissStatuses THEN 1 ELSE 0
        IN  /\ deadline_misses_current' = deadline_misses_current + d
            /\ deadline_misses_total' = deadline_misses_total + d

\* the report of a hyperperiod prints the counters as they stand, and the
\* monitor's total is the number of MISS and SKIPPED lines it printed
MissReportStep ==
    (report.printed' # report.printed) =>
        /\ model = "cyclic" =>
             /\ report'.misses_current = deadline_misses_current
             /\ report'.misses_total = deadline_misses_total
             /\ report'.miss + report'.skipped =
                  Cardinality({i \in 1..job_count :
                                 CycStatus(job_log[i]) \in MissStatuses})
        /\ model = "rtos" =>
             report'.misses_current =
                 Cardinality({i \in 1..log_count :
                                MonStatus(log_buffer[i]) \in MissStatuses})

C7_MissesAtMostJobs ==
    model = "cyclic" => deadline_misses_current <= job_count

\* a hyperperiod under way with several misses and more records than misses
C7_Witness ==
    /\ model = "cyclic"
    /\ deadline_misses_current >= 2
    /\ job_count > deadline_misses_current

(* ---- C8 ---- *)
LogWritePcs == {"skip_write", "log_write"}
LogGivePcs == {"skip_give", "log_give"}

\* neither log holds more records than its capacity
LogsWithinCapacity ==
    /\ job_count <= MAX_JOBS_PER_HYPERPERIOD
    /\ Len(job_log) = job_count
    /\ log_count <= MAX_LOGS_PER_HYPERPERIOD
    /\ Len(log_buffer) = log_count

\* an append to a full log changes nothing in the log and the producer goes
\* on to the statement after the append
FullLogStep ==
    /\ \A t \in TaskIds :
         (/\ task[t].pc \in LogWritePcs
          /\ task'[t].pc # task[t].pc
          /\ log_count = MAX_LOGS_PER_HYPERPERIOD)
         => /\ log_buffer' = log_buffer
            /\ log_count' = log_count
            /\ task'[t].pc \in LogGivePcs
    /\ (/\ model = "cyclic"
        /\ job_count = MAX_JOBS_PER_HYPERPERIOD
        /\ cyc'.i = cyc.i + 1)
       => job_log' = job_log /\ job_count' = job_count

\* C8: in both programs the log never holds more than its 50 records; an
\* append to a full log is dropped, leaves the length and the records as they
\* were, and the producer goes on.
C8_LogCapacity ==
    /\ LogsWithinCapacity
    /\ [][LogsWithinCapacity' /\ FullLogStep]_vars

\* a periodic task has passed its append with the log full: its record is not
\* in the log, and it is about to give the mutex back
C8_Witness ==
    /\ model = "rtos"
    /\ log_count = MAX_LOGS_PER_HYPERPERIOD
    /\ \E t \in TaskIds :
         /\ task[t].pc = "log_give"
         /\ \A i \in 1..log_count :
              ~(log_buffer[i].task_name = t /\
                log_buffer[i].seq = task[t].job_count)

(* ---- C9 ---- *)
\* a drain reports the records the log holds and leaves the log empty
DrainStep ==
    (report.printed' # report.printed) =>
        /\ model = "cyclic" =>
             /\ report'.jobs = job_count
             /\ job_count' = 0
             /\ job_log' = <<>>
        /\ model = "rtos" =>
             /\ report'.jobs = log_count
             /\ log_count' = 0
             /\ log_buffer' = <<>>

\* C9: draining the log leaves it empty and reports the records it held, so
\* a drain that follows another without an append in between reports zero
\* records; for the cyclic report and reset and for the monitor task.
C9_DrainEmpties == [][DrainStep]_vars

\* the monitor has drained a full log and is about to give the mutex back
C9_Witness ==
    /\ model = "rtos"
    /\ mon.pc = "m_give"
    /\ log_count = 0
    /\ report.jobs = MAX_LOGS_PER_HYPERPERIOD

(* ---- C10 ---- *)
\* positions of a periodic task inside its critical section
TaskSectionPcs == LogWritePcs \cup LogGivePcs

\* C10: every critical section on log_mutex, of the periodic tasks and of the
\* monitor alike, covers at most one record write or read, and the mutex is
\* not held across a workload execution or a vTaskDelayUntil.
C10_SingleRecordSections ==
    log_mutex # "none" =>
        /\ cs_ops <= 1
        /\ log_mutex \in TaskIds => task[log_mutex].pc \in TaskSectionPcs
        /\ log_mutex = "M" => mon.pc \in {"m_print", "m_give"}

(* ---- C11 ---- *)
\* periodic tasks blocked in xSemaphoreTake while the monitor holds log_mutex
BlockedByMonitor == {t \in TaskIds : log_mutex = "M" /\ Waiting(t)}

\* C11: under the priority scheduler the monitor drains the log only while
\* no periodic task is pending: no periodic task is ever blocked on log_mutex
\* while the monitor holds it, so the monitor delays no job.
C11_MonitorNeverBlocks ==
    model = "rtos" => BlockedByMonitor = {}

(* ---- C12 ---- *)
\* the sequence index of the job of record i of the cyclic log: the jobs of
\* its task dispatched since the start, before this one
CycSeq(i) ==
    LET t == job_log[i].task_name
    IN  hyperperiod_count * TableOccurrences(t)
          + Cardinality({j \in 1..(i - 1) : job_log[j].task_name = t})

\* C12: in both programs every logged job has release_time = base_time +
\* sequence_index * period and deadline = release_time + period of its task,
\* the sequence index counting the jobs of the task from 0.
C12_ReleaseAndDeadline ==
    /\ \A i \in 1..job_count :
         LET r == job_log[i]
             period_us == period_ms(r.task_name) * 1000
         IN  /\ r.release_time = scheduler_start_time + CycSeq(i) * period_us
             /\ r.deadline = r.release_time + period_us
    /\ \A i \in 1..log_count :
         LET r == log_buffer[i]
             period_us == period_ms(r.task_name) * 1000
         IN  /\ r.release_time = scheduler_start_time_us + r.seq * period_us
             /\ r.deadline = r.release_time + period_us

(* ---- C13 ---- *)
\* the dispatcher is at Task_C of the active frame
AtTaskC ==
    /\ model = "cyclic"
    /\ cyc.pc = "loop"
    /\ cyc.i < num_tasks(cyc.local_frame)
    /\ CycTask = "C"

\* Task_C is handled with the switch bank read as 255: the job is logged
\* SKIPPED without a call of job_C, the red LED toggles once and both miss
\* counters move by one
SkipAt255Step ==
    (AtTaskC /\ cyc' # cyc /\ switch_value' = 255) =>
        /\ cyc'.pc = "loop"
        /\ cyc'.i = cyc.i + 1
        /\ job_count' = job_count + 1
        /\ CycStatus(job_log'[job_count']) = "SKIPPED"
        /\ job_log'[job_count'].task_name = "C"
        /\ ~job_log'[job_count'].executed
        /\ workload_calls' = workload_calls
        /\ red_toggles' = red_toggles + 1
        /\ deadline_misses_current' = deadline_misses_current + 1
        /\ deadline_misses_total' = deadline_misses_total + 1

\* C13: in the cyclic dispatcher, with the switch bank at 255 Task_C is logged
\* SKIPPED and not executed in every frame that lists it, and each such skip
\* toggles the red LED and increments both miss counters.
C13_SkippedAt255 == [][SkipAt255Step]_vars

\* Task_C skipped at 255 in each of the four frames that list it
C13_Witness ==
    /\ model = "cyclic"
    /\ Cardinality({i \in 1..job_count :
                      /\ job_log[i].task_name = "C"
                      /\ CycStatus(job_log[i]) = "SKIPPED"
                      /\ job_log[i].wcet = TaskCWcetUs(255)}) = 4
    /\ red_toggles >= 4

(* ---- C14 ---- *)
\* job_C is called with the switch bank at 0: the time it keeps the
\* processor is the predicted 0 us, apart from the overhead of the call
ZeroDurationStep ==
    /\ (model = "cyclic" /\ workload_calls' = workload_calls + 1
           /\ CycTask = "C" /\ switch_value' = 0) =>
          job_log'[job_count'].exec_time <= TaskCWcetUs(0) + latency
    /\ (model = "rtos" /\ task["C"].pc = "exec_start"
           /\ task'["C"].pc = "exec" /\ switch_value' = 0) =>
          task'["C"].rem <= TaskCWcetUs(0) + latency

\* the skip check is made with the switch bank at 0: Task_C goes on to run
ZeroNeverSkippedStep ==
    /\ (AtTaskC /\ cyc' # cyc /\ switch_value' = 0) => cyc'.pc = "exec"
    /\ (model = "rtos" /\ task["C"].pc = "check"
           /\ task'["C"].pc # "check" /\ switch_value' = 0) =>
          /\ task'["C"].pc = "exec_start"
          /\ ~task'["C"].skip_execution

\* C14: with the switch bank at 0 the margin subtraction is clamped, so job_C
\* runs for no longer than the predicted (0 * 8000) / 256 = 0 us, and Task_C
\* is executed, never SKIPPED, in every frame or period that releases it.
C14_ZeroSensor == [][ZeroDurationStep /\ ZeroNeverSkippedStep]_vars

(* ---- C15 ---- *)
RECURSIVE SumNominal(_, _)
\* the nominal durations of the first k tasks of a task list, Task_C at the
\* duration the switch bank gives it now
SumNominal(tasks, k) ==
    IF k = 0 THEN 0
    ELSE SumNominal(tasks, k - 1) +
         (IF tasks[k] = "C" THEN TaskCWcetUs(switch_value)
          ELSE NominalUs(tasks[k]))

\* frames of the table that hold four tasks with more than a minor frame of
\* nominal work
OverloadedFrames ==
    {f \in 0..(NUM_FRAMES - 1) :
        /\ num_tasks(f) = MAX_TASKS_PER_FRAME
        /\ SumNominal(schedule[f + 1], num_tasks(f)) > MINOR_FRAME_MS * 1000}

\* the task loop of the active frame is over
FrameDone ==
    /\ model = "cyclic"
    /\ cyc.pc = "loop"
    /\ cyc.i = num_tasks(cyc.local_frame)

\* C15: the schedule table holds the documented overloaded frame (four tasks
\* whose nominal durations add up to more than the 5 ms minor frame), and
\* whenever that frame has been dispatched at least one of its jobs is logged
\* MISS or SKIPPED.
C15_OverloadedFrame ==
    FrameDone =>
        /\ OverloadedFrames # {}
        /\ cyc.local_frame \in OverloadedFrames =>
              \E i \in 1..job_count :
                  /\ job_log[i].frame = cyc.local_frame
                  /\ job_log[i].release_time = cyc.frame_start
                  /\ CycStatus(job_log[i]) \in MissStatuses

(* ---- C16 ---- *)
\* the switch bank gives Task_C a duration that fits in its frame after Task_B
FeasibleLevel(sw) ==
    NominalUs("B") + TaskCWcetUs(sw) <= MINOR_FRAME_MS * 1000

\* the duration a job of record r is meant to run for
NominalOf(r) ==
    IF r.task_name = "C" THEN r.wcet ELSE NominalUs(r.task_name)

\* the hyperperiod whose records the log holds had every tick on time (its
\* first job started at the frame start), every executed job running for its
\* nominal duration, and the switch bank fixed at a feasible level
NominalHyperperiod ==
    /\ FeasibleLevel(switch_value)
    /\ \A i \in 1..job_count :
         LET r == job_log[i]
         IN  /\ r.task_name = "C" => r.wcet = TaskCWcetUs(switch_value)
             /\ r.executed => r.exec_time = NominalOf(r)
             /\ (i = 1 \/ job_log[i - 1].release_time # r.release_time)
                  => (r.executed /\ r.start_time = r.release_time)

RECURSIVE SumOccurrences(_)
SumOccurrences(S) ==
    IF S = {} THEN 0
    ELSE LET t == CHOOSE x \in S : TRUE
         IN  TableOccurrences(t) + SumOccurrences(S \ {t})

\* C16: in the cyclic dispatcher, at the end of a full hyperperiod in which
\* every job ran for its nominal duration, the ticks were on time and the
\* switch bank stayed at a feasible level, the log holds as many records as
\* the schedule table lists task occurrences, every record is OK and
\* deadline_misses_total is what it was when the hyperperiod began.
C16_NominalHyperperiod ==
    (AtHyperperiodEnd /\ NominalHyperperiod) =>
        /\ job_count = SumOccurrences(TaskIds)
        /\ \A i \in 1..job_count : CycStatus(job_log[i]) = "OK"
        /\ deadline_misses_current = 0
        /\ deadline_misses_total = report.misses_total

\* the end of such a hyperperiod, the second of the run and after a first one
\* with misses, in which Task_C ran up to its deadline
C16_Witness ==
    /\ AtHyperperiodEnd
    /\ NominalHyperperiod
    /\ hyperperiod_count = 1
    /\ deadline_misses_total > 0
    /\ \E i \in 1..job_count :
         /\ job_log[i].task_name = "C"
         /\ job_log[i].executed
         /\ job_log[i].completion_time = job_log[i].deadline

(* ---- C17 ---- *)
\* job attempts of this step whose outcome is MISS or SKIPPED
MissOutcomes ==
    IF model = "cyclic"
    THEN IF cyc'.i = cyc.i + 1 /\ job_count' = job_count + 1
            /\ CycStatus(job_log'[job_count']) \in MissStatuses
         THEN 1 ELSE 0
    ELSE Cardinality({t \in TaskIds :
            \/ task[t].pc = "check" /\ task'[t].pc = "skip_take"
            \/ task[t].pc = "classify" /\ task'[t].pc = "log_take"
                 /\ task'[t].missed})

\* hyperperiod boundaries completed by this step: the dispatcher's frame
\* counter reaches a multiple of NUM_FRAMES, or the monitor's period is over
BoundariesCompleted ==
    IF model = "cyclic"
    THEN IF current_frame' = current_frame + 1
            /\ current_frame' % NUM_FRAMES = 0 THEN 1 ELSE 0
    ELSE IF mon'.hyperperiod_count = mon.hyperperiod_count + 1 THEN 1 ELSE 0

IndicatorStep ==
    /\ red_toggles' = red_toggles + MissOutcomes
    /\ green_toggles' = green_toggles + BoundariesCompleted

\* C17: in both programs the red LED is toggled exactly once for every job
\* whose outcome is MISS or SKIPPED and never for an OK job, and the green
\* LED exactly once at every completed hyperperiod boundary and never else.
C17_Indicators == [][IndicatorStep]_vars

(* ---- C18 ---- *)
\* C18: in the cyclic dispatcher, for every tick number, however long the
\* system has run, frame_start = base_time + tick_count * 5000 us and
\* frame_deadline = frame_start + 5000 us, base_time being the clock value
\* captured on the very first tick and never changed afterwards.
C18_FrameStartFromBase ==
    (model = "frame" /\ fr.pc = "loop") =>
        /\ fr.scheduler_start_time = fr.base_time
        /\ fr.frame_start =
             WideAdd(fr.base_time,
                     WideMulSmall(fr.tick_count, MINOR_FRAME_MS * 1000))
        /\ fr.frame_deadline =
             WideAdd(fr.frame_start, WideFromInt(MINOR_FRAME_MS * 1000))

(* ---- C19 ---- *)
\* a tick that completes a hyperperiod reports the log and the counters as
\* they stand and then resets them; any other step of the dispatcher leaves
\* them alone or only adds to them, and prints no report
BoundaryStep ==
    model = "cyclic" =>
        IF current_frame' = current_frame + 1
           /\ current_frame' % NUM_FRAMES = 0
        THEN /\ report'.printed = report.printed + 1
             /\ report'.hyperperiod = hyperperiod_count
             /\ report'.jobs = job_count
             /\ report'.ok = CountStatus(job_log, job_count, "OK")
             /\ report'.miss = CountStatus(job_log, job_count, "MISS")
             /\ report'.skipped = CountStatus(job_log, job_count, "SKIPPED")
             /\ report'.misses_current = deadline_misses_current
             /\ report'.misses_total = deadline_misses_total
             /\ job_count' = 0
             /\ job_log' = <<>>
             /\ deadline_misses_current' = 0
             /\ hyperperiod_count' = current_frame' \div NUM_FRAMES
             /\ deadline_misses_total' = deadline_misses_total
        ELSE /\ report' = report
             /\ hyperperiod_count' = hyperperiod_count
             /\ job_count' >= job_count
             /\ SubSeq(job_log', 1, job_count) = job_log
             /\ deadline_misses_current' >= deadline_misses_current
             /\ current_frame' # current_frame =>
                   UNCHANGED <<job_count, job_log, deadline_misses_current,
                               deadline_misses_total>>

\* C19: in the cyclic dispatcher a tick that advances the frame counter to a
\* multiple of 20 prints the report from the log and counters not yet reset
\* and then resets them: afterwards the log is empty,
\* deadline_misses_current = 0, hyperperiod_count = current_frame / 20 and
\* deadline_misses_total is untouched; a tick that does not complete a
\* hyperperiod resets nothing and prints no report.
C19_ReportThenReset == [][BoundaryStep]_vars

\* the second boundary of a run is behind, its report was printed from a log
\* with misses, and the log and the counter of the hyperperiod are reset
C19_Witness ==
    /\ model = "cyclic"
    /\ cyc.pc = "wait"
    /\ current_frame = 2 * NUM_FRAMES
    /\ hyperperiod_count = 2
    /\ job_count = 0
    /\ deadline_misses_current = 0
    /\ report.jobs = SumOccurrences(TaskIds)
    /\ report.misses_current > 0
    /\ deadline_misses_total > report.misses_current

(* ---- C20 ---- *)
\* records of the running tick in the cyclic log
TickRecords ==
    {i \in 1..job_count : job_log[i].release_time = cyc.frame_start}

\* inside a tick the log ends with one record for each of the first cyc.i
\* tasks of the active frame, in the order of the table, and holds no other
\* record of this tick
TickHandledInOrder ==
    (model = "cyclic" /\ cyc.pc # "wait") =>
        /\ cyc.i <= num_tasks(cyc.local_frame)
        /\ job_count >= cyc.i
        /\ Cardinality(TickRecords) = cyc.i
        /\ \A k \in 1..cyc.i :
             /\ job_log[job_count - cyc.i + k].task_name =
                    schedule[cyc.local_frame + 1][k]
             /\ job_log[job_count - cyc.i + k].release_time = cyc.frame_start

\* a job attempt of the dispatcher calls the workload once or not at all
\* (SKIPPED), and the frame counter moves by one at the end of the task list
TickStep ==
    model = "cyclic" =>
        /\ cyc'.i = cyc.i + 1 =>
              /\ job_count' = job_count + 1
              /\ workload_calls' = workload_calls +
                    (IF job_log'[job_count'].executed THEN 1 ELSE 0)
        /\ workload_calls' # workload_calls => cyc'.i = cyc.i + 1
        /\ current_frame' # current_frame =>
              /\ current_frame' = current_frame + 1
              /\ cyc.i = num_tasks(cyc.local_frame)

\* positions of periodic_task after the job attempt of the iteration and
\* before its job_count++
AttemptedPcs ==
    {"exec", "classify", "log_take", "log_write", "log_give",
     "skip_take", "skip_write", "skip_give", "incr"}

\* an iteration of a periodic task makes its attempt once (the call of the
\* job, or the skip decision) and job_count moves by one at its end
IterationStep ==
    \A t \in TaskIds :
        LET p == task[t].pc
            q == task'[t].pc
            executes == p = "exec_start" /\ q = "exec"
            skips == p = "check" /\ q = "skip_take"
        IN  /\ task'[t].job_count =
                  task[t].job_count +
                    (IF p = "incr" /\ q = "delay" THEN 1 ELSE 0)
            /\ (q \in AttemptedPcs /\ p \notin AttemptedPcs)
                  <=> (executes \/ skips)
            /\ (p \in AttemptedPcs /\ q \notin AttemptedPcs)
                  <=> (p = "incr" /\ q = "delay")
            /\ skips => task'[t].skip_execution
            /\ (model = "rtos" /\ executes) =>
                  workload_calls' = workload_calls + 1

\* C20: no job is retried and none is lost.  Each tick of the cyclic
\* dispatcher handles every task of the active frame once, in the declared
\* order, with one attempt (executed or SKIPPED) per task, and the frame
\* counter advances by one whatever the outcomes; each iteration of a
\* periodic task makes one attempt and increments job_count by one whether
\* the job was OK, MISS or SKIPPED.
C20_NoRetryNoLoss ==
    /\ TickHandledInOrder
    /\ [][TickHandledInOrder' /\ TickStep /\ IterationStep]_vars

\* Task_C of the priority scheduler has counted a job it skipped
C20_Witness ==
    /\ model = "rtos"
    /\ task["C"].pc = "delay"
    /\ task["C"].skip_execution
    /\ task["C"].job_count >= 2

(* ---- C21 ---- *)
\* positions of the monitor between its xSemaphoreTake and xSemaphoreGive
MonSectionPcs == {"m_print", "m_give"}

\* the tasks that are between their xSemaphoreTake and xSemaphoreGive
InSection ==
    {t \in TaskIds : task[t].pc \in TaskSectionPcs} \cup
    (IF mon.pc \in MonSectionPcs THEN {"M"} ELSE {})

\* at most one task is inside a critical section, and it is the holder
OneHolder ==
    /\ Cardinality(InSection) <= 1
    /\ InSection = (IF log_mutex = "none" THEN {} ELSE {log_mutex})

\* the log is written and the monitor's read position moves only in a step
\* of the holder, and an append keeps every record already in the log
HolderOnlyStep ==
    /\ (log_count' # log_count \/ log_buffer' # log_buffer
          \/ (mon.pc = "m_print" /\ mon'.i # mon.i)) =>
          /\ log_mutex # "none"
          /\ log_mutex' = log_mutex
          /\ PcOf(log_mutex)' # PcOf(log_mutex) \/ log_mutex = "M"
          /\ \A t \in TaskIds \ {log_mutex} : task'[t] = task[t]
          /\ log_mutex # "M" => mon' = mon
    /\ \A t \in TaskIds :
         (/\ task[t].pc \in LogWritePcs
          /\ task'[t].pc \in LogGivePcs
          /\ log_count < MAX_LOGS_PER_HYPERPERIOD)
         => /\ log_count' = log_count + 1
            /\ SubSeq(log_buffer', 1, log_count) = log_buffer
            /\ log_buffer'[log_count'].task_name = t
            /\ log_buffer'[log_count'].seq = task[t].job_count

\* C21: under the priority scheduler at most one of the six periodic tasks
\* and the monitor holds log_mutex at any time, and log_count and the log
\* records are read and written only by the holder, so no append is lost or
\* overwritten by a concurrent append or drain.
C21_MutualExclusion ==
    /\ OneHolder
    /\ [][OneHolder' /\ HolderOnlyStep]_vars

\* the monitor, preempted in the middle of its drain, holds log_mutex while
\* a periodic task that has a record to append waits for it
C21_Witness ==
    /\ log_mutex = "M"
    /\ mon.i > 0
    /\ mon.i < log_count
    /\ \E t \in BlockedByMonitor : task[t].pc = "log_take"

(* ---- C22 ---- *)
\* the frame whose load is added up lists Task_C
LoadHasC ==
    \E k \in 1..num_tasks(load.frame) : schedule[load.frame + 1][k] = "C"

\* C22 as stated: for every frame of the schedule table and every switch
\* value 0..255 the nominal durations of the tasks of the frame (A 1 ms,
\* B 1 ms, D 2 ms, E 4 ms, F 2 ms, C (value * 8000) / 256 us) add up to no
\* more than the 5 ms minor frame.
C22_EveryFrameFits ==
    (model = "load" /\ load.pc = "done") =>
        load.sum <= MINOR_FRAME_MS * 1000

\* C22 as amended: a frame that does not list Task_C has a nominal load of at
\* most 5 ms, and a frame that lists Task_C has one exactly when the switch
\* value is at most 128.
C22_FrameFitsUpTo128 ==
    (model = "load" /\ load.pc = "done") =>
        IF LoadHasC
        THEN (load.sum <= MINOR_FRAME_MS * 1000) <=> (load.value <= 128)
        ELSE load.sum <= MINOR_FRAME_MS * 1000

\* a frame with Task_C at the switch value 128 fills the minor frame exactly
C22_Witness ==
    /\ model = "load"
    /\ load.pc = "done"
    /\ LoadHasC
    /\ load.value = 128
    /\ load.sum = MINOR_FRAME_MS * 1000

(* ---- C23 ---- *)
\* job_C is called after Task_C passed the check, the switch bank being what
\* it was at the check: the busy wait is no longer than the duration the
\* check predicted, and the job is not a MISS
PassedJobStep ==
    (/\ model = "cyclic"
     /\ cyc.pc = "exec"
     /\ workload_calls' = workload_calls + 1
     /\ switch_value' = switch_value) =>
        /\ JobBusyUs("C", switch_value') <= cyc.wcet
        /\ job_log'[job_count'].task_name = "C"
        /\ CycStatus(job_log'[job_count']) # "MISS"
        /\ job_log'[job_count'].completion_time <= cyc.frame_deadline

\* C23: in the cyclic dispatcher, at every switch value 0..255, a job of
\* Task_C that passed the check is never a MISS: the duration job_C runs
\* for, ((value * 8000) / 256) - 10 us in 32-bit unsigned arithmetic, is at
\* most the duration the check predicted, so the job completes no later than
\* the frame deadline.
C23_PassedNeverMisses == [][PassedJobStep]_vars

(* ---- C24 ---- *)
\* positions of periodic_task at which release_time_us is the release time
\* of the job under way and xLastWakeTime the tick that woke it
JobUnderWayPcs == AttemptedPcs \cup {"check", "exec_start"}

Distance(a, b) == IF a >= b THEN a - b ELSE b - a

\* C24: under the priority scheduler the instant at which the nth job of a
\* task is woken (the tick of its first run plus n periods, as
\* vTaskDelayUntil keeps it) is within one tick of the release time
\* base + n * period recorded for that job, also for the tasks whose first
\* run is delayed by the tasks of higher priority.
C24_WakeMatchesRelease ==
    \A t \in TaskIds :
        task[t].pc \in JobUnderWayPcs =>
            Distance(TickTime(task[t].xLastWakeTime),
                     task[t].release_time_us) <= TickUs

(* ---- C25 ---- *)
\* positions of periodic_task before its loop
StartUpPcs == {"start", "init_check", "init_time", "init_flag"}

\* a step in which some task executes scheduler_start_time_us = time_us_64()
BaseWriteStep ==
    \E t \in TaskIds : task[t].pc = "init_time" /\ task'[t].pc = "init_flag"

\* a step in which some task computes a release time
ReleaseStep ==
    \E t \in TaskIds : task[t].pc = "release" /\ task'[t].pc # "release"

BaseWrittenOnceStep ==
    /\ BaseWriteStep =>
          /\ ~scheduler_initialized
          /\ \A t \in TaskIds : task[t].pc \in {"start", "init_time"}
    /\ ReleaseStep => scheduler_initialized
    /\ scheduler_initialized =>
          /\ scheduler_initialized'
          /\ scheduler_start_time_us' = scheduler_start_time_us

\* C25: under the priority scheduler scheduler_start_time_us is written
\* once, by the first task to run and while no other task has left its
\* entry point, before any task computes a release time, and it keeps the
\* value from then on, although the test and the setting of
\* scheduler_initialized are separate unguarded steps.
C25_BaseWrittenOnce == [][BaseWrittenOnceStep]_vars

\* all six tasks are in their loops, the last of them after the first has
\* completed jobs, and the base is the time of the first activation
C25_Witness ==
    /\ model = "rtos"
    /\ scheduler_initialized
    /\ scheduler_start_time_us = TickTime(0)
    /\ \A t \in TaskIds : task[t].pc \notin StartUpPcs
    /\ \E t \in TaskIds : task[t].job_count >= 2

(* ---- C26 ---- *)
\* ticks left before the end of the modelled run, within which a request
\* made now can still be served
HorizonMargin == 60

Early == TickCount + HorizonMargin < MaxTicks

\* a busy wait that lasts longer than the whole modelled run
Outlasting(t) == task[t].pc = "exec" /\ task[t].rem > MaxTicks * TickUs

\* jobs of t released before the margin at the end of the run
JobsDue(t) == (MaxTicks - HorizonMargin) \div period_ms(t)

\* the run reaches its end with every task having completed the jobs due
RunsToHorizon ==
    <>(/\ TickCount >= MaxTicks
       /\ \A t \in TaskIds :
              task[t].job_count >= JobsDue(t) \/ Outlasting(t))

LockAcquired ==
    \A a \in Actors : (PcOf(a) \in TakePcs /\ Early) ~> (log_mutex = a)

LockReleased == (log_mutex # "none" /\ Early) ~> (log_mutex = "none")

\* C26: under the priority scheduler, with every busy wait terminating and
\* the processor always given to the highest-priority ready task, the log
\* mutex never deadlocks: every task and the monitor that asks for the
\* mutex gets it, the mutex is given back after every take, and the run
\* never stops short of its end, each task completing job after job, one
\* per period.
C26_LockProgress ==
    /\ RunsToHorizon
    /\ LockAcquired
    /\ LockReleased

\* in the second hyperperiod a task waits for the mutex that another holds,
\* every task having completed jobs before
C26_Witness ==
    /\ model = "rtos"
    /\ Early
    /\ TickCount >= HYPERPERIOD_MS
    /\ \E a \in Actors : PcOf(a) \in TakePcs /\ log_mutex \notin {"none", a}
    /\ \A t \in TaskIds : task[t].job_count >= 1

====
